---- MODULE Spec2Model ----
(***************************************************************************)
(* A model of the job tracker's Dashboard (src/src/components/Dashboard.tsx)*)
(* and JobForm (src/unnamed/part_000): the component-local view state, the *)
(* subscription effect with its asynchronous setup and cleanup, the form   *)
(* submissions and the writes they start, and the logout handler, together *)
(* with the jobs collection of the document database they talk to.         *)
(*                                                                         *)
(* Objects are functions from field names to values; the object spread     *)
(* {...a, ...b} is Spread(a, b).  Texts are sequences of one-letter        *)
(* strings, so that toLowerCase and includes are computed letter by letter.*)
(* Timestamps are the value of the clock `now` (toISOString is injective   *)
(* and monotone).  The passive text fields salary, applicationDeadline,    *)
(* interviewDate, notes and url are carried like company and are left out. *)
(***************************************************************************)
EXTENDS Integers, Sequences, FiniteSets, TLC

\* ------------------------------------------------------------- bounds
\* form submissions in one behaviour
MaxWrites == 2
\* runs of the subscription effect in one behaviour
MaxEffects == 2
\* ticks of the clock
MaxTime == 1
\* clicks on Logout in one behaviour
MaxLogouts == 1
\* length of the job list of the filter specification
MaxJobs == 2

\* ------------------------------------------------------------- values
Users == {"u1", "u2"}
NoUser == "none"
Statuses == {"PENDING", "APPLIED", "INTERVIEWING", "ACCEPTED", "REJECTED"}
NoJob == [none |-> TRUE]
NoForm == [none |-> TRUE]
TextFields == {"company", "position", "location"}
\* what the user types into a text field of the form
FormTexts == {<<"A", "b">>}
\* what the user types into the search box
Searches == {<<>>, <<"a">>, <<"B">>, <<"a", "B">>, <<"B", "c">>, <<"c", "a">>}

Uuid(n) == <<"uuid", n>>
DocId(n) == <<"doc", n>>

\* {...a, ...b}: the fields of b win
Spread(a, b) == b @@ a

RemoveAt(s, i) == [k \in 1..(Len(s) - 1) |-> IF k < i THEN s[k] ELSE s[k + 1]]

VARIABLES
    mounted,     \* the Dashboard is mounted
    user,        \* useAuth().user: a uid, or NoUser
    jobs,        \* Dashboard state: the job list
    showForm,    \* Dashboard state
    editingJob,  \* Dashboard state: a job, or NoJob (undefined)
    search,      \* Dashboard state: the search text
    formData,    \* JobForm state while the form is mounted, else NoForm
    db,          \* the jobs collection: a sequence of [docId, data]
    pending,     \* the handleSubmit calls awaiting their write
    submits,     \* form submissions so far
    effects,     \* the runs of the subscription effect, oldest first
    lastNet,     \* the most recent network call issued to the database
    logouts,     \* the handleLogout calls in flight, by the await they are at
    toasts,      \* toasts shown so far, by kind
    stats,       \* history: failures, triggers and calls counted
    now          \* the clock

vars == <<mounted, user, jobs, showForm, editingJob, search, formData, db,
          pending, submits, effects, lastNet, logouts, toasts, stats, now>>

viewVars == <<jobs, showForm, editingJob, search, formData>>
writeVars == <<db, pending, submits>>

\* ------------------------------------------------------------- text
Lower(c) == CASE c = "A" -> "a" [] c = "B" -> "b" [] c = "C" -> "c" [] OTHER -> c

toLowerCase(s) == [i \in 1..Len(s) |-> Lower(s[i])]

includes(s, sub) ==
    \E k \in 0..(Len(s) - Len(sub)) : SubSeq(s, k + 1, k + Len(sub)) = sub

\* ------------------------------------------------------------- filter
\* faulty variant: the search text is not lower-cased
JobMatchesRawSearch(job, s) ==
    \/ includes(toLowerCase(job.company), s)
    \/ includes(toLowerCase(job.position), s)
    \/ includes(toLowerCase(job.location), s)

\* the predicate of jobs.filter(...), Dashboard.tsx 92-96
JobMatches(job, s) ==
    \/ includes(toLowerCase(job.company), toLowerCase(s))
    \/ includes(toLowerCase(job.position), toLowerCase(s))
    \/ includes(toLowerCase(job.location), toLowerCase(s))

FilterJobs(list, s) == SelectSeq(list, LAMBDA job : JobMatches(job, s))

filteredJobs == FilterJobs(jobs, search)

\* the jobs prop of the StatusBoard of one status, Dashboard.tsx 175
BoardJobs(status) == SelectSeq(filteredJobs, LAMBDA job : job.status = status)

\* ------------------------------------------------------------- toasts
ToastError(t) == [t EXCEPT !.error = @ + 1]
ToastSuccess(t) == [t EXCEPT !.success = @ + 1]

\* faulty variant: the catch block swallows the error
SaveCatchSilent(t) == t

\* the catch blocks show a toast and call nothing again
CallsAfterCatch(n) == n

\* the catch blocks
SetupCatch(t) == ToastError(t)
SaveCatch(t) == ToastError(t)
LogoutCatch(t) == ToastError(t)

\* ------------------------------------------------------------- JobForm
\* the initial formData of a form mounted with job prop `job`
InitialFormData(job) ==
    IF job # NoJob THEN job
    ELSE [company |-> <<>>, position |-> <<>>, status |-> "PENDING", location |-> <<>>]

\* the object JobForm.handleSubmit hands to onSubmit
FormJob(data, job, n, t) ==
    Spread(data, [id |-> IF job # NoJob THEN job.id ELSE Uuid(n),
                  appliedDate |-> IF job # NoJob THEN job.appliedDate ELSE t])

\* the `required` text inputs of the form
RequiredFilled(data) == \A f \in TextFields : data[f] # <<>>

\* ------------------------------------------------------------- writes
UpdateDocData(job, uid, t) == Spread(job, [userId |-> uid, updatedAt |-> t])

AddDocData(job, uid, t) == Spread(job, [userId |-> uid, createdAt |-> t, updatedAt |-> t])

\* faulty variant: the branch tests job.id, which every submitted job has
SubmitWriteByJobId(job, editing, uid, t) ==
    [kind |-> "update", target |-> job.id, data |-> UpdateDocData(job, uid, t), live |-> TRUE]

\* the write Dashboard.handleSubmit starts for `job`
SubmitWrite(job, editing, uid, t) ==
    IF editing # NoJob
    THEN [kind |-> "update", target |-> job.id, data |-> UpdateDocData(job, uid, t), live |-> TRUE]
    ELSE [kind |-> "add", target |-> <<>>, data |-> AddDocData(job, uid, t), live |-> TRUE]

DocIndex(id) == {k \in 1..Len(db) : db[k].docId = id}

\* the collection after the write w has been applied
ApplyWrite(w) ==
    IF w.kind = "add"
    THEN Append(db, [docId |-> DocId(Len(db) + 1), data |-> w.data])
    ELSE [k \in 1..Len(db) |->
            IF db[k].docId = w.target
            THEN [db[k] EXCEPT !.data = Spread(@, w.data)] ELSE db[k]]

\* the write can succeed: no undefined field, and an updated document exists
CanApply(w) ==
    /\ w.data.userId # NoUser
    /\ w.kind = "update" => DocIndex(w.target) # {}

\* what the state setters after the await do
AfterWrite(w) ==
    IF w.live
    THEN /\ showForm' = FALSE
         /\ editingJob' = NoJob
         /\ formData' = NoForm
    ELSE UNCHANGED <<showForm, editingJob, formData>>

\* ------------------------------------------------------------- snapshot
\* the documents the query where('userId', '==', uid) matches
QueryDocs(uid) == SelectSeq(db, LAMBDA d : d.data.userId = uid)

\* snapshot.docs.map(doc => ({id: doc.id, ...doc.data()}))
SnapshotJobs(uid) ==
    LET docs == QueryDocs(uid)
    IN [k \in 1..Len(docs) |-> Spread([id |-> docs[k].docId], docs[k].data)]

\* ------------------------------------------------------------- effect
\* the effect body for user u: nothing without a user, else setupFirestore()
\* starts and issues enableNetwork before its first await
RunEffect(es, u) ==
    IF u = NoUser THEN es
    ELSE Append(es, [uid |-> u, st |-> "enabling", cleaned |-> FALSE])

\* faulty variant: the cleanup ignores a setup that has not finished
CleanupRunIfRegistered(e) ==
    IF e.st = "enabling" THEN e
    ELSE [e EXCEPT !.cleaned = TRUE,
                   !.st = IF e.st = "listening" THEN "closed" ELSE e.st]

\* the cleanup of one run: unsubscribe.then(...) is attached to the promise of
\* setupFirestore(); when that promise is settled already the callback runs in
\* the next microtask: unsub?.() and disableNetwork(db)
CleanupRun(e) ==
    [e EXCEPT !.cleaned = TRUE,
              !.st = IF e.st = "listening" THEN "closed" ELSE e.st]

\* the run whose cleanup React holds: the last one, unless cleaned up already
HasLiveRun(es) == Len(es) > 0 /\ ~es[Len(es)].cleaned

CleanupEffect(es) ==
    IF HasLiveRun(es) THEN [es EXCEPT ![Len(es)] = CleanupRun(@)] ELSE es

\* the cleanup's callback ran in this step, so disableNetwork was issued
CleanupSettled(es) == HasLiveRun(es) /\ es[Len(es)].st # "enabling"

\* the last network call after a cleanup followed by the effect for user u:
\* the new run's enableNetwork is issued first, the old run's callback after
NetAfterEffect(es, u, net) ==
    IF CleanupSettled(es) THEN "disable"
    ELSE IF u # NoUser THEN "enable" ELSE net

\* the promise of setupFirestore() resolves with the listener's unsubscribe;
\* a cleanup that ran meanwhile unsubscribes at once
ResolveRun(e) == [e EXCEPT !.st = IF e.cleaned THEN "closed" ELSE "listening"]

Listening == {i \in 1..Len(effects) : effects[i].st = "listening"}
Enabling == {i \in 1..Len(effects) : effects[i].st = "enabling"}

\* ------------------------------------------------------------- actions
Init ==
    /\ mounted = TRUE
    /\ user = "u1"
    /\ jobs = <<>>
    /\ showForm = FALSE
    /\ editingJob = NoJob
    /\ search = <<>>
    /\ formData = NoForm
    /\ db = <<>>
    /\ pending = <<>>
    /\ submits = 0
    /\ effects = RunEffect(<<>>, "u1")
    /\ lastNet = "enable"
    /\ logouts = [disabling |-> 0, signingOut |-> 0, clicks |-> 0]
    /\ toasts = [error |-> 0, success |-> 0]
    /\ stats = [failedSetups |-> 0, failedWrites |-> 0, failedLogouts |-> 0,
                okWrites |-> 0, okLogouts |-> 0, navs |-> 0,
                triggers |-> 1, calls |-> 1]
    /\ now = 0

Tick ==
    /\ now < MaxTime
    /\ now' = now + 1
    /\ UNCHANGED <<mounted, user, viewVars, writeVars, effects, lastNet, logouts, toasts, stats>>

\* the Dashboard is mounted: fresh state, and the effect runs
Mount ==
    /\ ~mounted
    /\ user # NoUser => Len(effects) < MaxEffects
    /\ mounted' = TRUE
    /\ jobs' = <<>> /\ showForm' = FALSE /\ editingJob' = NoJob
    /\ search' = <<>> /\ formData' = NoForm
    /\ effects' = RunEffect(effects, user)
    /\ lastNet' = IF user # NoUser THEN "enable" ELSE lastNet
    /\ stats' = IF user # NoUser
                THEN [stats EXCEPT !.triggers = @ + 1, !.calls = @ + 1] ELSE stats
    /\ UNCHANGED <<user, writeVars, logouts, toasts, now>>

\* the Dashboard is unmounted: the effect is cleaned up, its state is gone
Unmount ==
    /\ mounted
    /\ mounted' = FALSE
    /\ jobs' = <<>> /\ showForm' = FALSE /\ editingJob' = NoJob
    /\ search' = <<>> /\ formData' = NoForm
    /\ effects' = CleanupEffect(effects)
    /\ lastNet' = NetAfterEffect(effects, NoUser, lastNet)
    /\ pending' = [k \in 1..Len(pending) |-> [pending[k] EXCEPT !.live = FALSE]]
    /\ UNCHANGED <<user, db, submits, logouts, toasts, stats, now>>

\* useAuth() delivers another user: the effect's dependency changed
UserChange(u) ==
    /\ u # user
    /\ (mounted /\ u # NoUser) => Len(effects) < MaxEffects
    /\ user' = u
    /\ IF mounted
       THEN /\ effects' = RunEffect(CleanupEffect(effects), u)
            /\ lastNet' = NetAfterEffect(effects, u, lastNet)
            /\ stats' = IF u # NoUser
                        THEN [stats EXCEPT !.triggers = @ + 1, !.calls = @ + 1] ELSE stats
       ELSE UNCHANGED <<effects, lastNet, stats>>
    /\ UNCHANGED <<mounted, viewVars, writeVars, logouts, toasts, now>>

\* enableNetwork resolved and onSnapshot registered the listener
EnableResolve(i) ==
    /\ i \in Enabling
    /\ effects' = [effects EXCEPT ![i] = ResolveRun(@)]
    /\ lastNet' = IF effects[i].cleaned THEN "disable" ELSE lastNet
    /\ UNCHANGED <<mounted, user, viewVars, writeVars, logouts, toasts, stats, now>>

\* enableNetwork rejected or onSnapshot threw: the catch block of setupFirestore
EnableReject(i) ==
    /\ i \in Enabling
    /\ effects' = [effects EXCEPT ![i].st = "failed"]
    /\ lastNet' = IF effects[i].cleaned THEN "disable" ELSE lastNet
    /\ toasts' = SetupCatch(toasts)
    /\ stats' = [stats EXCEPT !.failedSetups = @ + 1,
                              !.calls = CallsAfterCatch(@)]
    /\ UNCHANGED <<mounted, user, viewVars, writeVars, logouts, now>>

\* the listener's callback: setJobs(jobsData)
SnapshotDeliver(i) ==
    /\ i \in Listening
    /\ mounted
    /\ jobs' = SnapshotJobs(effects[i].uid)
    /\ UNCHANGED <<mounted, user, showForm, editingJob, search, formData, writeVars,
                   effects, lastNet, logouts, toasts, stats, now>>

\* onChange of the search box
SetSearch(s) ==
    /\ mounted
    /\ s # search
    /\ search' = s
    /\ UNCHANGED <<mounted, user, jobs, showForm, editingJob, formData, writeVars,
                   effects, lastNet, logouts, toasts, stats, now>>

\* the Add Application button: setShowForm(true); JobForm mounts with job={editingJob}
AddClick ==
    /\ mounted
    /\ ~showForm
    /\ showForm' = TRUE
    /\ formData' = InitialFormData(editingJob)
    /\ UNCHANGED <<mounted, user, jobs, editingJob, search, writeVars,
                   effects, lastNet, logouts, toasts, stats, now>>

\* a StatusBoard calls onEdit(job) for one of the jobs it shows: setEditingJob(job)
EditClick(status, k) ==
    /\ mounted
    /\ k \in 1..Len(BoardJobs(status))
    /\ editingJob' = BoardJobs(status)[k]
    /\ UNCHANGED <<mounted, user, jobs, showForm, search, formData, writeVars,
                   effects, lastNet, logouts, toasts, stats, now>>

\* onClose of the form (the X and Cancel buttons)
CloseForm ==
    /\ mounted
    /\ showForm
    /\ showForm' = FALSE
    /\ editingJob' = NoJob
    /\ formData' = NoForm
    /\ UNCHANGED <<mounted, user, jobs, search, writeVars,
                   effects, lastNet, logouts, toasts, stats, now>>

\* onChange of a text input of the form
ChangeText(f, v) ==
    /\ mounted
    /\ showForm
    /\ formData[f] # v
    /\ formData' = Spread(formData, f :> v)
    /\ UNCHANGED <<mounted, user, jobs, showForm, editingJob, search, writeVars,
                   effects, lastNet, logouts, toasts, stats, now>>

\* onChange of the status select of the form
ChangeStatus(v) ==
    /\ mounted
    /\ showForm
    /\ formData.status # v
    /\ formData' = Spread(formData, [status |-> v])
    /\ UNCHANGED <<mounted, user, jobs, showForm, editingJob, search, writeVars,
                   effects, lastNet, logouts, toasts, stats, now>>

\* the form is submitted: JobForm.handleSubmit calls onSubmit(job), which runs
\* Dashboard.handleSubmit up to its await, and then onClose()
SubmitForm ==
    /\ mounted
    /\ showForm
    /\ RequiredFilled(formData)
    /\ submits < MaxWrites
    /\ LET job == FormJob(formData, editingJob, submits + 1, now)
       IN pending' = Append(pending, SubmitWrite(job, editingJob, user, now))
    /\ submits' = submits + 1
    /\ stats' = [stats EXCEPT !.triggers = @ + 1, !.calls = @ + 1]
    /\ showForm' = FALSE
    /\ editingJob' = NoJob
    /\ formData' = NoForm
    /\ UNCHANGED <<mounted, user, jobs, search, db, effects, lastNet, logouts, toasts, now>>

\* the awaited addDoc / updateDoc resolved
WriteResolve(i) ==
    /\ i \in 1..Len(pending)
    /\ CanApply(pending[i])
    /\ db' = ApplyWrite(pending[i])
    /\ pending' = RemoveAt(pending, i)
    /\ toasts' = ToastSuccess(toasts)
    /\ stats' = [stats EXCEPT !.okWrites = @ + 1]
    /\ AfterWrite(pending[i])
    /\ UNCHANGED <<mounted, user, jobs, search, submits, effects, lastNet, logouts, now>>

\* the awaited addDoc / updateDoc rejected, or threw: the catch block
WriteReject(i) ==
    /\ i \in 1..Len(pending)
    /\ pending' = RemoveAt(pending, i)
    /\ toasts' = SaveCatch(toasts)
    /\ stats' = [stats EXCEPT !.failedWrites = @ + 1,
                              !.calls = CallsAfterCatch(@)]
    /\ UNCHANGED <<mounted, user, viewVars, db, submits, effects, lastNet, logouts, now>>

\* the Logout button: handleLogout runs up to await disableNetwork(db)
LogoutClick ==
    /\ mounted
    /\ logouts.clicks < MaxLogouts
    /\ logouts' = [logouts EXCEPT !.clicks = @ + 1, !.disabling = @ + 1]
    /\ lastNet' = "disable"
    /\ stats' = [stats EXCEPT !.triggers = @ + 1, !.calls = @ + 1]
    /\ UNCHANGED <<mounted, user, viewVars, writeVars, effects, toasts, now>>

\* disableNetwork resolved: logout() is called and awaited
LogoutDisabled ==
    /\ logouts.disabling > 0
    /\ logouts' = [logouts EXCEPT !.disabling = @ - 1, !.signingOut = @ + 1]
    /\ UNCHANGED <<mounted, user, viewVars, writeVars, effects, lastNet, toasts, stats, now>>

\* what happens to the location after handleLogout failed
NavsAfterLogoutFailure(n) == n

\* disableNetwork or logout() rejected: the catch block of handleLogout
LogoutReject(at) ==
    /\ logouts[at] > 0
    /\ logouts' = [logouts EXCEPT ![at] = @ - 1]
    /\ toasts' = LogoutCatch(toasts)
    /\ stats' = [stats EXCEPT !.failedLogouts = @ + 1, !.navs = NavsAfterLogoutFailure(@),
                              !.calls = CallsAfterCatch(@)]
    /\ UNCHANGED <<mounted, user, viewVars, writeVars, effects, lastNet, now>>

\* logout() resolved: the user is signed out, then navigate('/')
LogoutResolve ==
    /\ logouts.signingOut > 0
    /\ logouts' = [logouts EXCEPT !.signingOut = @ - 1]
    /\ user' = NoUser
    /\ IF mounted /\ user # NoUser
       THEN /\ effects' = CleanupEffect(effects)
            /\ lastNet' = NetAfterEffect(effects, NoUser, lastNet)
       ELSE UNCHANGED <<effects, lastNet>>
    /\ stats' = [stats EXCEPT !.okLogouts = @ + 1, !.navs = @ + 1]
    /\ UNCHANGED <<mounted, viewVars, writeVars, toasts, now>>

Next ==
    \/ Tick
    \/ Mount
    \/ Unmount
    \/ \E u \in Users \cup {NoUser} : UserChange(u)
    \/ \E i \in 1..MaxEffects : EnableResolve(i)
    \/ \E i \in 1..MaxEffects : EnableReject(i)
    \/ \E i \in 1..MaxEffects : SnapshotDeliver(i)
    \/ \E s \in Searches : SetSearch(s)
    \/ AddClick
    \/ \E s \in Statuses, k \in 1..MaxWrites : EditClick(s, k)
    \/ CloseForm
    \/ \E f \in TextFields, v \in FormTexts : ChangeText(f, v)
    \/ \E v \in Statuses : ChangeStatus(v)
    \/ SubmitForm
    \/ \E i \in 1..MaxWrites : WriteResolve(i)
    \/ \E i \in 1..MaxWrites : WriteReject(i)
    \/ LogoutClick
    \/ LogoutDisabled
    \/ \E at \in {"disabling", "signingOut"} : LogoutReject(at)
    \/ LogoutResolve

\* the whole program; the specifications below are sessions of it
Spec == Init /\ [][Next]_vars

\* ---------------------------------------------------------------------
\* The form session: one logged-in user on a mounted Dashboard adds and
\* edits jobs while the listener delivers snapshots.
FormNext ==
    \/ Tick
    \/ \E i \in 1..MaxEffects : EnableResolve(i)
    \/ \E i \in 1..MaxEffects : SnapshotDeliver(i)
    \/ AddClick
    \/ \E s \in Statuses, k \in 1..MaxWrites : EditClick(s, k)
    \/ CloseForm
    \/ \E f \in TextFields, v \in FormTexts : ChangeText(f, v)
    \/ \E v \in Statuses : ChangeStatus(v)
    \/ SubmitForm
    \/ \E i \in 1..MaxWrites : WriteResolve(i)
    \/ \E i \in 1..MaxWrites : WriteReject(i)

FormSpec == Init /\ [][FormNext]_vars

\* ---------------------------------------------------------------------
\* The lifecycle: mounts and unmounts, changes of user, logouts and the
\* asynchronous setups, cleanups and writes they interleave with.
LifecycleNext ==
    \/ Mount
    \/ Unmount
    \/ \E u \in Users \cup {NoUser} : UserChange(u)
    \/ \E i \in 1..MaxEffects : EnableResolve(i)
    \/ \E i \in 1..MaxEffects : EnableReject(i)
    \/ \E i \in 1..MaxEffects : SnapshotDeliver(i)
    \/ AddClick
    \/ \E f \in TextFields, v \in FormTexts : ChangeText(f, v)
    \/ SubmitForm
    \/ \E i \in 1..MaxWrites : WriteResolve(i)
    \/ \E i \in 1..MaxWrites : WriteReject(i)
    \/ LogoutClick
    \/ LogoutDisabled
    \/ \E at \in {"disabling", "signingOut"} : LogoutReject(at)
    \/ LogoutResolve

LifecycleSpec == Init /\ [][LifecycleNext]_vars

\* ---------------------------------------------------------------------
\* The subscription alone, over a collection that holds one job of each user
\* (each as the create form stores it), with the setup's network call settling
\* eventually.
SeedJob(u, n) ==
    AddDocData(FormJob([company |-> <<"A", "b">>, position |-> <<"b">>,
                        status |-> "PENDING", location |-> <<"b">>], NoJob, n, 0), u, 0)

SeedDb ==
    <<[docId |-> DocId(1), data |-> SeedJob("u1", 1)],
      [docId |-> DocId(2), data |-> SeedJob("u2", 2)]>>

EffectInit ==
    /\ mounted = TRUE
    /\ user = "u1"
    /\ jobs = <<>>
    /\ showForm = FALSE
    /\ editingJob = NoJob
    /\ search = <<>>
    /\ formData = NoForm
    /\ db = SeedDb
    /\ pending = <<>>
    /\ submits = Len(SeedDb)
    /\ effects = RunEffect(<<>>, "u1")
    /\ lastNet = "enable"
    /\ logouts = [disabling |-> 0, signingOut |-> 0, clicks |-> 0]
    /\ toasts = [error |-> 0, success |-> Len(SeedDb)]
    /\ stats = [failedSetups |-> 0, failedWrites |-> 0, failedLogouts |-> 0,
                okWrites |-> Len(SeedDb), okLogouts |-> 0, navs |-> 0,
                triggers |-> 1 + Len(SeedDb), calls |-> 1 + Len(SeedDb)]
    /\ now = 0

EffectNext ==
    \/ Mount
    \/ Unmount
    \/ \E u \in Users \cup {NoUser} : UserChange(u)
    \/ \E i \in 1..MaxEffects : EnableResolve(i)
    \/ \E i \in 1..MaxEffects : EnableReject(i)
    \/ \E i \in 1..MaxEffects : SnapshotDeliver(i)
    \/ LogoutClick
    \/ LogoutDisabled
    \/ \E at \in {"disabling", "signingOut"} : LogoutReject(at)
    \/ LogoutResolve

\* the promise of enableNetwork settles
FairEffectSpec ==
    /\ EffectInit
    /\ [][EffectNext]_vars
    /\ \A i \in 1..MaxEffects : WF_vars(EnableResolve(i) \/ EnableReject(i))

\* ---------------------------------------------------------------------
\* The search filter, over job lists a snapshot may deliver: the fields are
\* texts of mixed case, and the user types into the search box.
FilterTexts == {<<"A", "b">>, <<"b", "C">>}

FilterJobSamples ==
    {AddDocData(FormJob([company |-> c, position |-> p, status |-> st, location |-> l],
                        NoJob, 1, 0), "u1", 0) :
        c \in FilterTexts, p \in FilterTexts, l \in FilterTexts,
        st \in {"PENDING", "REJECTED"}}

FilterJobLists ==
    UNION {[1..n -> FilterJobSamples] : n \in 0..MaxJobs}

FilterInit ==
    /\ mounted = TRUE
    /\ user = "u1"
    /\ jobs \in FilterJobLists
    /\ showForm = FALSE
    /\ editingJob = NoJob
    /\ search = <<>>
    /\ formData = NoForm
    /\ db = <<>>
    /\ pending = <<>>
    /\ submits = 0
    /\ effects = <<ResolveRun(RunEffect(<<>>, "u1")[1])>>
    /\ lastNet = "enable"
    /\ logouts = [disabling |-> 0, signingOut |-> 0, clicks |-> 0]
    /\ toasts = [error |-> 0, success |-> 0]
    /\ stats = [failedSetups |-> 0, failedWrites |-> 0, failedLogouts |-> 0,
                okWrites |-> 0, okLogouts |-> 0, navs |-> 0,
                triggers |-> 1, calls |-> 1]
    /\ now = 0

FilterNext == \E s \in Searches : SetSearch(s)

FilterSpec == FilterInit /\ [][FilterNext]_vars

\* ------------------------------------------------------------- claims
\* C1: an edit of a job that was created through the form and delivered by
\* the snapshot listener issues an update addressed to the stored document the
\* job was read from (the document that holds the job's data).
C1_EditUpdatesStoredDocument ==
    \A k \in 1..Len(pending) :
        pending[k].kind = "update" =>
            \E d \in DocIndex(pending[k].target) : db[d].data.id = pending[k].data.id

\* C2: when a status board triggers edit on a job, the resulting state shows
\* the form in edit mode for that job: showForm is true, editingJob is the job
\* and the form is pre-filled with it.
C2_EditShowsForm ==
    [][(editingJob' # editingJob /\ editingJob' # NoJob)
         => (showForm' /\ formData' = editingJob')]_vars

IdsInUse ==
    {db[k].docId : k \in 1..Len(db)} \cup {db[k].data.id : k \in 1..Len(db)}
    \cup {pending[k].data.id : k \in 1..Len(pending)}
    \cup {jobs[k].id : k \in 1..Len(jobs)}

\* C7: a submission while no job is being edited starts exactly one addDoc and
\* no updateDoc; its document carries the form's field values, a fresh id,
\* appliedDate, createdAt and updatedAt equal to the submission time, the
\* user's uid and one of the five statuses; no stored document changes; and a
\* create form opens with status PENDING.
C7_CreateSubmitAddsDocument ==
    [][/\ (Len(pending') > Len(pending) /\ editingJob = NoJob) =>
            LET w == pending'[Len(pending')]
            IN /\ Len(pending') = Len(pending) + 1
               /\ SubSeq(pending', 1, Len(pending)) = pending
               /\ w.kind = "add"
               /\ \A f \in TextFields \cup {"status"} : w.data[f] = formData[f]
               /\ w.data.id \notin IdsInUse
               /\ w.data.appliedDate = now
               /\ w.data.createdAt = now
               /\ w.data.updatedAt = now
               /\ w.data.userId = user
               /\ w.data.status \in Statuses
               /\ db' = db
       /\ (~showForm /\ showForm' /\ editingJob = NoJob) => formData'.status = "PENDING"
      ]_vars

\* a second job was added through the create form, with a status the user chose
C7_Witness ==
    \E k \in 1..Len(pending) :
        /\ pending[k].kind = "add"
        /\ pending[k].data.id = Uuid(2)
        /\ pending[k].data.status = "ACCEPTED"
        /\ pending[k].data.createdAt = 1
        /\ Len(db) = 1

\* C8: a form opened with the Add Application button is an empty create form,
\* whatever happened before.
C8_AddOpensCreateForm ==
    [][(~showForm /\ showForm')
         => (editingJob' = NoJob /\ formData' = InitialFormData(NoJob))]_vars

\* C9: the completion of a write started by an earlier submission neither
\* hides the form shown at that time nor clears the editingJob selected then.
C9_WriteCompletionKeepsForm ==
    [][(Len(pending') < Len(pending))
         => (showForm' = showForm /\ editingJob' = editingJob)]_vars

\* C3: whenever the Dashboard is mounted with a logged-in user and its listener
\* is registered (and no logout is under way), the most recent network call
\* issued to the database is enableNetwork.
C3_NetworkEnabledWhileListening ==
    (/\ mounted
     /\ user # NoUser
     /\ Listening # {}
     /\ logouts.disabling = 0
     /\ logouts.signingOut = 0) => lastNet = "enable"

C5_JobsBelongToUser ==
    mounted => \A k \in 1..Len(jobs) : jobs[k].userId = user

\* C10: a cleaned-up run of the effect ends without a registered listener,
\* also when the cleanup ran before the setup finished; only a registered
\* listener of a run that is not cleaned up changes jobs; and once no setup is
\* pending at most one listener is registered.
C10_CleanupUnsubscribes ==
    /\ \A i \in 1..MaxEffects :
          [](i <= Len(effects) /\ effects[i].cleaned
               => <>(i <= Len(effects) /\ effects[i].st \in {"closed", "failed"}))
    /\ [](\A i \in 1..Len(effects) : effects[i].cleaned => effects[i].st # "listening")
    /\ [][(jobs' # jobs /\ mounted' = mounted)
            => \E i \in Listening : /\ ~effects[i].cleaned
                                    /\ jobs' = SnapshotJobs(effects[i].uid)]_vars
    /\ [](Enabling = {} => Cardinality(Listening) <= 1)

\* a run was cleaned up before its setup finished, while the next run's
\* listener has delivered the new user's jobs
C10_Witness ==
    \E i, j \in 1..Len(effects) :
        /\ effects[i].cleaned /\ effects[i].st = "enabling"
        /\ effects[j].st = "listening"
        /\ jobs # <<>>

SameLetter(a, b) ==
    \/ a = b
    \/ {a, b} \in {{"a", "A"}, {"b", "B"}, {"c", "C"}}

\* q occurs in text at some offset, letters compared without regard to case
ContainsIgnoringCase(text, q) ==
    \E k \in 0..(Len(text) - Len(q)) :
        \A i \in 1..Len(q) : SameLetter(text[k + i], q[i])

\* C6: the filtered jobs are exactly the jobs whose company, position or
\* location contains the search text, case ignored, in their order; the empty
\* search keeps every job; each board shows the filtered jobs of its status.
C6_FilterIsCaseInsensitiveContains ==
    /\ filteredJobs =
          SelectSeq(jobs, LAMBDA job :
              \E f \in TextFields : ContainsIgnoringCase(job[f], search))
    /\ search = <<>> => filteredJobs = jobs
    /\ \A st \in Statuses :
          BoardJobs(st) = SelectSeq(filteredJobs, LAMBDA job : job.status = st)

\* an upper-case search letter matches a lower-case letter of the second job
\* only, which a board shows while the first job is filtered out
C6_Witness ==
    /\ search = <<"a", "B">>
    /\ Len(jobs) = 2
    /\ filteredJobs = <<jobs[2]>>
    /\ jobs[2].location = <<"A", "b">>
    /\ jobs[2].company = <<"b", "C">>
    /\ jobs[2].position = <<"b", "C">>
    /\ BoardJobs("REJECTED") = <<jobs[2]>>
====
